---- MODULE Spec2Model ----
(***************************************************************************)
(* Model of ebpf/diffkeeper.bpf.c: three write kprobes and one exec        *)
(* tracepoint that reserve a record in a BPF ring buffer, populate it and  *)
(* submit it, running concurrently on several CPUs, plus the single        *)
(* user-space consumer that drains the two ring buffers.                   *)
(***************************************************************************)
EXTENDS Integers, Sequences, FiniteSets, TLC

\* ------------------------------------------------------------------ bounds
\* Number of CPUs (calling contexts) that can run a probe at the same time.
NumCpus == 3
\* Records a ring buffer holds (max_entries divided by the record size).
Capacity == 2
\* Probe invocations in one behaviour.
MaxCalls == 3
\* sizeof(ev->path), scaled down; sizeof(event->namespace), sizeof(event->container)
\* and sizeof(event->runtime) are smaller, as in the source.
PathSize == 4
NameSize == PathSize - 1

Cpus == 1..NumCpus

\* --------------------------------------------------- fixed-width integers
\* A 64-bit value is four 16-bit limbs, least significant first; a 32-bit
\* value is two.
LimbBase == 2^16
NumLimbs64 == 4

U64(n) == <<n, 0, 0, 0>>
Zero64 == U64(0)
Half64 == <<0, 0, 0, 2^15>>                                    \* 2^63
Max64 == <<LimbBase - 1, LimbBase - 1, LimbBase - 1, LimbBase - 1>>  \* 2^64 - 1

\* Carry into limb k (1-based) of a + b.
RECURSIVE CarryIn(_, _, _)
CarryIn(a, b, k) ==
    IF k = 1 THEN 0
    ELSE (a[k - 1] + b[k - 1] + CarryIn(a, b, k - 1)) \div LimbBase

\* total += len on size_t: addition modulo 2^64.
Add64(a, b) ==
    [k \in 1..NumLimbs64 |-> (a[k] + b[k] + CarryIn(a, b, k)) % LimbBase]

\* x >> 32 stored into a __u32.
Shr32(x) == <<x[3], x[4]>>
\* The low 32 bits of x (what a cast to __u32 without the shift would keep).
Low32(x) == <<x[1], x[2]>>

\* ------------------------------------------------------------ char buffers
\* A char array is a sequence of bytes; 0 is NUL.
Zeros(n) == [k \in 1..n |-> 0]

Min(a, b) == IF a < b THEN a ELSE b

\* The C string a buffer holds: the bytes before the first NUL.
RECURSIVE CStrFrom(_, _)
CStrFrom(buf, k) ==
    IF k > Len(buf) \/ buf[k] = 0 THEN <<>>
    ELSE <<buf[k]>> \o CStrFrom(buf, k + 1)
CStr(buf) == CStrFrom(buf, 1)

\* bpf_probe_read_kernel_str / bpf_d_path on success: at most size-1 bytes
\* of src, then a NUL; the bytes after the NUL are not touched.
StrCopy(buf, src) ==
    LET n == Min(Len(src), Len(buf) - 1)
    IN  [k \in 1..Len(buf) |->
            IF k <= n THEN src[k] ELSE IF k = n + 1 THEN 0 ELSE buf[k]]

\* __builtin_memset(buf, 0, sizeof(buf)).
Memset0(buf) == Zeros(Len(buf))

\* ------------------------------------------------------------------ inputs
\* struct file *: 0 is NULL. Each file has the path d_path would build and
\* the name of its dentry; the two files use different bytes.
NULL == 0
Files == {1, 2}
FilePtrs == Files \cup {NULL}
FullPath(f) == IF f = 1 THEN <<1, 2, 1>> ELSE <<3, 4>>
DentryName(f) == IF f = 1 THEN <<1>> ELSE <<4>>

\* size_t count of a vfs_write call.
Counts == {U64(7), Half64}
\* struct iovec arrays (the iov_len of each segment); nr_segs is the length.
Iovecs == {<<>>, <<U64(10), U64(20), U64(5)>>, <<Half64, Half64>>}
\* struct kiocb *: the ki_filp it holds.
Kiocbs(files) == {[ki_filp |-> f] : f \in files}

\* Current task at exec: comm, and nsproxy (NULL, or a struct whose uts_ns
\* is NULL or has a nodename).
NoUts == <<>>
Tasks ==
    { [comm |-> <<7>>, nsproxy |-> FALSE, uts_ns |-> FALSE, nodename |-> NoUts],
      [comm |-> <<7>>, nsproxy |-> TRUE,  uts_ns |-> FALSE, nodename |-> NoUts],
      [comm |-> <<8>>, nsproxy |-> TRUE,  uts_ns |-> TRUE,  nodename |-> <<5, 5>>],
      [comm |-> <<8>>, nsproxy |-> TRUE,  uts_ns |-> TRUE,  nodename |-> <<6>>] }
NoTask == [comm |-> <<>>, nsproxy |-> FALSE, uts_ns |-> FALSE, nodename |-> NoUts]

\* trace_event_raw_sched_process_exec: __data_loc_filename is a __u32 whose
\* low 16 bits are the offset of the filename in the event and whose high
\* 16 bits are its length; data maps offsets to the string stored there.
ExecCtxs ==
    { [data_loc |-> <<2, 1>>, data |-> <<<<8>>, <<9>>>>] }
NoCtx == [data_loc |-> <<0, 0>>, data |-> <<>>]

\* bpf_get_current_pid_tgid() on each CPU: tgid in the upper 32 bits, the
\* thread id in the lower 32 bits.
PidTgid(p) == <<100 + p, 0, p, 0>>

\* The calls a workload makes: the arguments its probes can be entered with.
FullLoad ==
    [files |-> FilePtrs, counts |-> Counts, iovecs |-> Iovecs, tasks |-> Tasks]
\* A light workload, for many CPUs at once.
LightLoad ==
    [files |-> {NULL, 1}, counts |-> {U64(7)}, iovecs |-> {<<U64(5)>>},
     tasks |-> {t \in Tasks : t.nodename \in {NoUts, <<5, 5>>} /\ t.nsproxy}]

NoArg ==
    [probe |-> "none", file |-> NULL, iov |-> <<>>, count |-> Zero64,
     task |-> NoTask, ctx |-> NoCtx]

\* ------------------------------------------------------------ ring buffers
SysFields == {"pid", "bytes", "path"}
LifeFields == {"pid", "state", "runtime", "namespace", "container"}

\* What the model remembers about an outstanding record and the memory does
\* not hold: who reserved it, for which invocation, which fields that
\* invocation has written, and how the path was resolved.
NoOwner == [cpu |-> 0, seq |-> 0, arg |-> NoArg, wr |-> {}, how |-> "none"]

\* Ring memory as mapped at load: all zero.
SysSlot0 ==
    [busy |-> FALSE, pid |-> <<0, 0>>, bytes |-> Zero64, path |-> Zeros(PathSize),
     g |-> NoOwner]
LifeSlot0 ==
    [busy |-> FALSE, pid |-> <<0, 0>>, state |-> 0, runtime |-> Zeros(NameSize),
     namespace |-> Zeros(NameSize), container |-> Zeros(NameSize), g |-> NoOwner]

\* A ring: its memory, the consumer position and the number of outstanding
\* records (reserved or submitted, not yet consumed).
Ring0(slot) == [mem |-> [k \in 1..Capacity |-> slot], head |-> 1, n |-> 0]

\* Index of the record at distance d from the consumer position.
RingIx(r, d) == ((r.head - 1 + d) % Capacity) + 1
\* The outstanding records, oldest first.
Outstanding(r) == [d \in 1..r.n |-> r.mem[RingIx(r, d - 1)]]

\* A slip: off by one, the producer may pass the consumer by one record.
RingHasRoomOffByOne(r) == r.n <= Capacity

\* bpf_ringbuf_reserve fails when the new producer position would pass the
\* consumer position by more than the ring size.
RingHasRoom(r) == r.n < Capacity

\* A slip: a ring that hands out the record in front of the consumer
\* position, so that the newest record is read first.
bpf_ringbuf_reserve_front(r, owner) ==
    LET ix == RingIx(r, Capacity - 1)
    IN  [ix |-> ix,
         ring |-> [r EXCEPT !.mem[ix].busy = TRUE,
                            !.mem[ix].g = owner,
                            !.head = ix,
                            !.n = r.n + 1]]

\* bpf_ringbuf_reserve when there is room: the record at the producer
\* position (ix), marked busy, and the ring with it. The helper does not
\* clear the record: its memory is whatever the ring held there, zero on
\* first use and the bytes of a consumed record afterwards (hence the
\* memsets the probes do themselves).
bpf_ringbuf_reserve(r, owner) ==
    LET ix == RingIx(r, r.n)
    IN  [ix |-> ix,
         ring |-> [r EXCEPT !.mem[ix].busy = TRUE,
                            !.mem[ix].g = owner,
                            !.n = r.n + 1]]

\* bpf_ringbuf_submit: clear the busy bit of the record.
bpf_ringbuf_submit(r, ix) == [r EXCEPT !.mem[ix].busy = FALSE]

\* ------------------------------------------------------------------- state
VARIABLES
    pc,                 \* per CPU: where the probe running there stands
    arg,                \* per CPU: the arguments of the running invocation
    idx,                \* per CPU: loop variable i
    total,              \* per CPU: size_t total / count
    ev,                 \* per CPU: the reserved record (index) or NULL
    ret,                \* per CPU: the value the last invocation returned
    inv,                \* per CPU: what the current/last invocation did
    events,             \* ring buffer of syscall_event
    lifecycle_events,   \* ring buffer of lifecycle_event
    seen,               \* consumer: per ring and CPU, the last record read
    nCalls,             \* invocations started
    nDrained,           \* records the consumer has read
    online,             \* the CPUs that run probes
    load                \* the workload: the arguments probes are entered with

vars ==
    <<pc, arg, idx, total, ev, ret, inv, events, lifecycle_events, seen,
      nCalls, nDrained, online, load>>

\* seq numbers the invocations of one CPU; the rest is about the current or
\* last one: its probe, whether its file handle was NULL, its calls of
\* bpf_ringbuf_reserve, whether one found the ring full, its submits.
NoInv ==
    [seq |-> 0, probe |-> "none", nofile |-> FALSE, attempts |-> 0,
     full |-> FALSE, submits |-> 0]

InitWith(cpus, work) ==
    /\ online = cpus
    /\ load = work
    /\ pc = [p \in Cpus |-> "idle"]
    /\ arg = [p \in Cpus |-> NoArg]
    /\ idx = [p \in Cpus |-> 0]
    /\ total = [p \in Cpus |-> Zero64]
    /\ ev = [p \in Cpus |-> NULL]
    /\ ret = [p \in Cpus |-> 0]
    /\ inv = [p \in Cpus |-> NoInv]
    /\ events = Ring0(SysSlot0)
    /\ lifecycle_events = Ring0(LifeSlot0)
    /\ seen = [c \in {"events", "lifecycle_events"} |-> [p \in Cpus |-> 0]]
    /\ nCalls = 0
    /\ nDrained = 0

\* Every CPU runs probes, under the light workload.
Init == InitWith(Cpus, LightLoad)
\* One CPU runs probes, under the full workload.
InitOneCpu == InitWith({1}, FullLoad)

\* A CPU runs one probe at a time; a new invocation starts when the last
\* one has returned.
CanStart(p) == p \in online /\ pc[p] \in {"idle", "returned"} /\ nCalls < MaxCalls

Start(p, a, where, tot) ==
    /\ pc' = [pc EXCEPT ![p] = where]
    /\ arg' = [arg EXCEPT ![p] = a]
    /\ idx' = [idx EXCEPT ![p] = 0]
    /\ total' = [total EXCEPT ![p] = tot]
    /\ ev' = [ev EXCEPT ![p] = NULL]
    /\ inv' = [inv EXCEPT ![p] = [NoInv EXCEPT !.seq = inv[p].seq + 1,
                                                !.probe = a.probe,
                                                !.nofile = (a.file = NULL)]]
    /\ nCalls' = nCalls + 1
    /\ UNCHANGED <<ret, events, lifecycle_events, seen, nDrained, online, load>>

\* The probe returns v; its locals are gone.
Return(p, v) ==
    /\ pc' = [pc EXCEPT ![p] = "returned"]
    /\ ret' = [ret EXCEPT ![p] = v]
    /\ arg' = [arg EXCEPT ![p] = NoArg]
    /\ idx' = [idx EXCEPT ![p] = 0]
    /\ total' = [total EXCEPT ![p] = Zero64]
    /\ ev' = [ev EXCEPT ![p] = NULL]
    /\ UNCHANGED <<nCalls, online, load>>

\* ------------------------------------------------------------ write probes
\* kprobe/vfs_write: emit_syscall_event(ctx, file, count).
kprobe_vfs_write(p) ==
    /\ CanStart(p)
    /\ \E f \in load.files, c \in load.counts :
          Start(p, [NoArg EXCEPT !.probe = "vfs_write", !.file = f, !.count = c],
                "emit", c)

\* kprobe/vfs_writev: file = iocb->ki_filp; total = 0; then the loop.
kprobe_vfs_writev(p) ==
    /\ CanStart(p)
    /\ \E iocb \in Kiocbs(load.files), iov \in load.iovecs :
          Start(p, [NoArg EXCEPT !.probe = "vfs_writev", !.file = iocb.ki_filp,
                                 !.iov = iov],
                "sum", Zero64)

\* kprobe/vfs_pwritev: total = 0; then the loop.
kprobe_vfs_pwritev(p) ==
    /\ CanStart(p)
    /\ \E f \in load.files, iov \in load.iovecs :
          Start(p, [NoArg EXCEPT !.probe = "vfs_pwritev", !.file = f, !.iov = iov],
                "sum", Zero64)

\* A slip: total = len.
AccumulateLast(tot, len) == len

\* A slip: an overflow guard, the sum stops at 2^64 - 1.
AccumulateSaturating(tot, len) ==
    IF CarryIn(tot, len, NumLimbs64 + 1) > 0 THEN Max64 ELSE Add64(tot, len)

\* total += len.
Accumulate(tot, len) == Add64(tot, len)

\* for (i = 0; i < nr_segs; i++) { len = iov[i].iov_len; total += len; }
\* and, when the loop ends, the call of emit_syscall_event(ctx, file, total).
iov_loop(p) ==
    /\ pc[p] = "sum"
    /\ IF idx[p] < Len(arg[p].iov)
       THEN /\ total' = [total EXCEPT ![p] = Accumulate(total[p], arg[p].iov[idx[p] + 1])]
            /\ idx' = [idx EXCEPT ![p] = idx[p] + 1]
            /\ pc' = pc
       ELSE /\ pc' = [pc EXCEPT ![p] = "emit"]
            /\ UNCHANGED <<total, idx>>
    /\ UNCHANGED <<arg, ev, ret, inv, events, lifecycle_events, seen, nCalls,
                   nDrained, online, load>>

\* ------------------------------------------------------ emit_syscall_event
Owner(p) == [NoOwner EXCEPT !.cpu = p, !.seq = inv[p].seq, !.arg = arg[p]]

\* What an invocation notes when it calls bpf_ringbuf_reserve on ring r.
Attempt(p, r) ==
    [inv[p] EXCEPT !.attempts = inv[p].attempts + 1,
                   !.full = inv[p].full \/ r.n >= Capacity]

\* A slip: a reserve that waits for the consumer to make room.
emit_reserve_wait(p) ==
    /\ pc[p] = "emit"
    /\ arg[p].file # NULL
    /\ ~RingHasRoom(events)
    /\ UNCHANGED vars

\* A slip: the NULL check left out, the record is reserved all the same.
emit_without_null_check(p) ==
    /\ pc[p] = "emit"
    /\ arg[p].file = NULL
    /\ RingHasRoom(events)
    /\ inv' = [inv EXCEPT ![p] = Attempt(p, events)]
    /\ LET got == bpf_ringbuf_reserve(events, Owner(p))
       IN  /\ ev' = [ev EXCEPT ![p] = got.ix]
           /\ events' = got.ring
    /\ pc' = [pc EXCEPT ![p] = "fill"]
    /\ UNCHANGED <<arg, idx, total, ret, lifecycle_events, seen, nCalls, nDrained,
                   online, load>>

\* if (!file) return 0;
emit_null_file(p) ==
    /\ pc[p] = "emit"
    /\ arg[p].file = NULL
    /\ Return(p, 0)
    /\ UNCHANGED <<inv, events, lifecycle_events, seen, nDrained>>

\* A slip: try again when the ring is full.
emit_reserve_retry(p) ==
    /\ pc[p] = "emit"
    /\ arg[p].file # NULL
    /\ ~RingHasRoom(events)
    /\ inv[p].attempts < 2
    /\ inv' = [inv EXCEPT ![p] = Attempt(p, events)]
    /\ UNCHANGED <<pc, arg, idx, total, ev, ret, events, lifecycle_events, seen,
                   nCalls, nDrained, online, load>>

\* A slip: one pool of storage for both rings, the reserve fails when
\* either ring is full.
emit_reserve_failed_either_ring(p) ==
    /\ pc[p] = "emit"
    /\ arg[p].file # NULL
    /\ ~RingHasRoom(events) \/ ~RingHasRoom(lifecycle_events)
    /\ inv' = [inv EXCEPT ![p] = Attempt(p, events)]
    /\ Return(p, 0)
    /\ UNCHANGED <<events, lifecycle_events, seen, nDrained>>

\* ev = bpf_ringbuf_reserve(&events, sizeof(*ev), 0); if (!ev) return 0;
emit_reserve_failed(p) ==
    /\ pc[p] = "emit"
    /\ arg[p].file # NULL
    /\ ~RingHasRoom(events)
    /\ inv' = [inv EXCEPT ![p] = Attempt(p, events)]
    /\ Return(p, 0)
    /\ UNCHANGED <<events, lifecycle_events, seen, nDrained>>

\* A slip: a reserve that hands out a slot whether or not there is room.
emit_reserved_unchecked(p) ==
    /\ pc[p] = "emit"
    /\ arg[p].file # NULL
    /\ inv' = [inv EXCEPT ![p] = Attempt(p, events)]
    /\ LET got == bpf_ringbuf_reserve(events, Owner(p))
       IN  /\ ev' = [ev EXCEPT ![p] = got.ix]
           /\ events' = got.ring
    /\ pc' = [pc EXCEPT ![p] = "fill"]
    /\ UNCHANGED <<arg, idx, total, ret, lifecycle_events, seen, nCalls, nDrained, online, load>>

emit_reserved(p) ==
    /\ pc[p] = "emit"
    /\ arg[p].file # NULL
    /\ RingHasRoom(events)
    /\ inv' = [inv EXCEPT ![p] = Attempt(p, events)]
    /\ LET got == bpf_ringbuf_reserve(events, Owner(p))
       IN  /\ ev' = [ev EXCEPT ![p] = got.ix]
           /\ events' = got.ring
    /\ pc' = [pc EXCEPT ![p] = "fill"]
    /\ UNCHANGED <<arg, idx, total, ret, lifecycle_events, seen, nCalls, nDrained, online, load>>

\* A slip: the shift left out, the __u32 keeps the thread id.
CurrentTid(p) == Low32(PidTgid(p))

\* ev->pid = bpf_get_current_pid_tgid() >> 32;
CurrentPid(p) == Shr32(PidTgid(p))

\* A slip: the count stored through a 32-bit field.
EventBytes32(count) == <<count[1], count[2], 0, 0>>

\* ev->bytes = count;
EventBytes(count) == count

\* A slip: the memset left out.
KeepPath(buf) == buf

\* __builtin_memset(ev->path, 0, sizeof(ev->path));
ClearPath(buf) == Memset0(buf)

\* ev->pid = ...; ev->bytes = count; memset(ev->path, 0, ...).
emit_fill(p) ==
    /\ pc[p] = "fill"
    /\ events' = [events EXCEPT
                    !.mem[ev[p]].pid = CurrentPid(p),
                    !.mem[ev[p]].bytes = EventBytes(total[p]),
                    !.mem[ev[p]].path = ClearPath(@),
                    !.mem[ev[p]].g.wr = @ \cup {"pid", "bytes", "path"}]
    /\ pc' = [pc EXCEPT ![p] = "d_path"]
    /\ UNCHANGED <<arg, idx, total, ev, ret, inv, lifecycle_events, seen,
                   nCalls, nDrained, online, load>>

\* bpf_d_path(&path, ev->path, sizeof(ev->path)) >= 0: the path is in the
\* buffer. It fails when the path and its NUL do not fit.
emit_d_path_ok(p) ==
    /\ pc[p] = "d_path"
    /\ Len(FullPath(arg[p].file)) + 1 <= PathSize
    /\ events' = [events EXCEPT
                    !.mem[ev[p]].path = StrCopy(@, FullPath(arg[p].file)),
                    !.mem[ev[p]].g.how = "d_path"]
    /\ pc' = [pc EXCEPT ![p] = "submit"]
    /\ UNCHANGED <<arg, idx, total, ev, ret, inv, lifecycle_events, seen,
                   nCalls, nDrained, online, load>>

\* A slip: return on the failure of bpf_d_path, the record never submitted.
emit_d_path_failed_return(p) ==
    /\ pc[p] = "d_path"
    /\ Return(p, 0)
    /\ UNCHANGED <<inv, events, lifecycle_events, seen, nDrained>>

\* bpf_d_path(...) < 0: read the dentry and its name, then
\* bpf_probe_read_kernel_str(ev->path, sizeof(ev->path), name), which copies
\* the name or, when the read faults, zeroes the buffer.
emit_d_path_failed(p) ==
    /\ pc[p] = "d_path"
    /\ \E readable \in BOOLEAN :
          events' = [events EXCEPT
                       !.mem[ev[p]].path =
                           IF readable THEN StrCopy(@, DentryName(arg[p].file))
                           ELSE Memset0(@),
                       !.mem[ev[p]].g.how = IF readable THEN "d_name" ELSE "fault"]
    /\ pc' = [pc EXCEPT ![p] = "submit"]
    /\ UNCHANGED <<arg, idx, total, ev, ret, inv, lifecycle_events, seen,
                   nCalls, nDrained, online, load>>

\* bpf_ringbuf_submit(ev, 0); return 0;
emit_submit(p) ==
    /\ pc[p] = "submit"
    /\ events' = bpf_ringbuf_submit(events, ev[p])
    /\ inv' = [inv EXCEPT ![p].submits = @ + 1]
    /\ Return(p, 0)
    /\ UNCHANGED <<lifecycle_events, seen, nDrained>>

\* ------------------------------------------------------- handle_sched_exec
\* A slip: report the full ring to the caller (-ENOMEM).
exec_reserve_failed_errno(p) ==
    /\ pc[p] = "exec"
    /\ ~RingHasRoom(lifecycle_events)
    /\ inv' = [inv EXCEPT ![p] = Attempt(p, lifecycle_events)]
    /\ Return(p, -12)
    /\ UNCHANGED <<events, lifecycle_events, seen, nDrained>>

\* event = bpf_ringbuf_reserve(&lifecycle_events, sizeof(*event), 0);
\* if (!event) return 0;
exec_reserve_failed(p) ==
    /\ pc[p] = "exec"
    /\ ~RingHasRoom(lifecycle_events)
    /\ inv' = [inv EXCEPT ![p] = Attempt(p, lifecycle_events)]
    /\ Return(p, 0)
    /\ UNCHANGED <<events, lifecycle_events, seen, nDrained>>

exec_reserved(p) ==
    /\ pc[p] = "exec"
    /\ RingHasRoom(lifecycle_events)
    /\ inv' = [inv EXCEPT ![p] = Attempt(p, lifecycle_events)]
    /\ LET got == bpf_ringbuf_reserve(lifecycle_events, Owner(p))
       IN  /\ ev' = [ev EXCEPT ![p] = got.ix]
           /\ lifecycle_events' = got.ring
    /\ pc' = [pc EXCEPT ![p] = "x_fill"]
    /\ UNCHANGED <<arg, idx, total, ret, events, seen, nCalls, nDrained, online, load>>

\* tracepoint/sched/sched_process_exec fires on a CPU.
handle_sched_exec(p) ==
    /\ CanStart(p)
    /\ \E t \in load.tasks, c \in ExecCtxs :
          Start(p, [NoArg EXCEPT !.probe = "sched_exec", !.task = t, !.ctx = c],
                "exec", Zero64)

\* bpf_get_current_comm(buf, size): the comm, NUL-padded to the size.
CurrentComm(buf, comm) == StrCopy(Memset0(buf), comm)

\* A slip: event->state never set.
exec_fill_no_state(p) ==
    /\ pc[p] = "x_fill"
    /\ lifecycle_events' = [lifecycle_events EXCEPT
                    !.mem[ev[p]].pid = CurrentPid(p),
                    !.mem[ev[p]].runtime = CurrentComm(@, arg[p].task.comm),
                    !.mem[ev[p]].g.wr = @ \cup {"pid", "runtime"}]
    /\ pc' = [pc EXCEPT ![p] = "x_ns"]
    /\ UNCHANGED <<arg, idx, total, ev, ret, inv, events, seen, nCalls, nDrained,
                   online, load>>

\* event->pid = ...; event->state = 1; bpf_get_current_comm(event->runtime, ...).
exec_fill(p) ==
    /\ pc[p] = "x_fill"
    /\ lifecycle_events' = [lifecycle_events EXCEPT
                    !.mem[ev[p]].pid = CurrentPid(p),
                    !.mem[ev[p]].state = 1,
                    !.mem[ev[p]].runtime = CurrentComm(@, arg[p].task.comm),
                    !.mem[ev[p]].g.wr = @ \cup {"pid", "state", "runtime"}]
    /\ pc' = [pc EXCEPT ![p] = "x_ns"]
    /\ UNCHANGED <<arg, idx, total, ev, ret, inv, events, seen, nCalls, nDrained, online, load>>

\* if (ns) { uts = ns->uts_ns; if (uts) read_str(event->namespace, nodename); }
\* else memset(event->namespace, 0, ...);
\* The value of the namespace buffer afterwards, and whether it was written.
NamespaceAfter(buf, task) ==
    IF task.nsproxy
    THEN IF task.uts_ns THEN StrCopy(buf, task.nodename) ELSE buf
    ELSE Memset0(buf)
NamespaceWritten(task) == ~task.nsproxy \/ task.uts_ns

\* A slip: give up, the record never submitted, when the task has a
\* namespace group and no UTS namespace.
exec_namespace_or_return(p) ==
    /\ pc[p] = "x_ns"
    /\ IF arg[p].task.nsproxy /\ ~arg[p].task.uts_ns
       THEN /\ Return(p, 0)
            /\ UNCHANGED <<inv, events, lifecycle_events, seen, nDrained>>
       ELSE /\ lifecycle_events' = [lifecycle_events EXCEPT
                    !.mem[ev[p]].namespace = NamespaceAfter(@, arg[p].task),
                    !.mem[ev[p]].g.wr = @ \cup {"namespace"}]
            /\ pc' = [pc EXCEPT ![p] = "x_container"]
            /\ UNCHANGED <<arg, idx, total, ev, ret, inv, events, seen, nCalls,
                           nDrained, online, load>>

exec_namespace(p) ==
    /\ pc[p] = "x_ns"
    /\ lifecycle_events' = [lifecycle_events EXCEPT
                    !.mem[ev[p]].namespace = NamespaceAfter(@, arg[p].task),
                    !.mem[ev[p]].g.wr =
                        IF NamespaceWritten(arg[p].task) THEN @ \cup {"namespace"} ELSE @]
    /\ pc' = [pc EXCEPT ![p] = "x_container"]
    /\ UNCHANGED <<arg, idx, total, ev, ret, inv, events, seen, nCalls, nDrained, online, load>>

\* offset = ctx->__data_loc_filename & 0xFFFF; filename = (char *)ctx + offset;
ExecFilename(ctx) == ctx.data[ctx.data_loc[1]]

\* bpf_probe_read_kernel_str(event->container, sizeof(event->container), filename);
exec_container(p) ==
    /\ pc[p] = "x_container"
    /\ lifecycle_events' = [lifecycle_events EXCEPT
                    !.mem[ev[p]].container = StrCopy(@, ExecFilename(arg[p].ctx)),
                    !.mem[ev[p]].g.wr = @ \cup {"container"}]
    /\ pc' = [pc EXCEPT ![p] = "x_submit"]
    /\ UNCHANGED <<arg, idx, total, ev, ret, inv, events, seen, nCalls, nDrained, online, load>>

\* A slip: return 0 with the submit left out.
exec_return_without_submit(p) ==
    /\ pc[p] = "x_submit"
    /\ Return(p, 0)
    /\ UNCHANGED <<inv, events, lifecycle_events, seen, nDrained>>

\* bpf_ringbuf_submit(event, 0); return 0;
exec_submit(p) ==
    /\ pc[p] = "x_submit"
    /\ lifecycle_events' = bpf_ringbuf_submit(lifecycle_events, ev[p])
    /\ inv' = [inv EXCEPT ![p].submits = @ + 1]
    /\ Return(p, 0)
    /\ UNCHANGED <<events, seen, nDrained>>

\* ---------------------------------------------------------------- consumer
\* The consumer reads the record at the consumer position once its busy bit
\* is clear, then releases its space; the memory keeps its bytes.
CanConsume(r) == r.n > 0 /\ ~r.mem[r.head].busy
Consumed(r) ==
    [r EXCEPT !.mem[r.head].g = NoOwner,
              !.head = RingIx(r, 1),
              !.n = r.n - 1]

drain_events ==
    /\ CanConsume(events)
    /\ seen' = [seen EXCEPT !["events"][events.mem[events.head].g.cpu] =
                                events.mem[events.head].g.seq]
    /\ events' = Consumed(events)
    /\ nDrained' = nDrained + 1
    /\ UNCHANGED <<pc, arg, idx, total, ev, ret, inv, lifecycle_events, nCalls, online, load>>

drain_lifecycle_events ==
    /\ CanConsume(lifecycle_events)
    /\ seen' = [seen EXCEPT
                  !["lifecycle_events"][lifecycle_events.mem[lifecycle_events.head].g.cpu] =
                      lifecycle_events.mem[lifecycle_events.head].g.seq]
    /\ lifecycle_events' = Consumed(lifecycle_events)
    /\ nDrained' = nDrained + 1
    /\ UNCHANGED <<pc, arg, idx, total, ev, ret, inv, events, nCalls, online, load>>

\* ----------------------------------------------------------- specification
Next ==
    \/ \E p \in Cpus : kprobe_vfs_write(p)
    \/ \E p \in Cpus : kprobe_vfs_writev(p)
    \/ \E p \in Cpus : kprobe_vfs_pwritev(p)
    \/ \E p \in Cpus : iov_loop(p)
    \/ \E p \in Cpus : emit_null_file(p)
    \/ \E p \in Cpus : emit_reserve_failed(p)
    \/ \E p \in Cpus : emit_reserved(p)
    \/ \E p \in Cpus : emit_fill(p)
    \/ \E p \in Cpus : emit_d_path_ok(p)
    \/ \E p \in Cpus : emit_d_path_failed(p)
    \/ \E p \in Cpus : emit_submit(p)
    \/ \E p \in Cpus : handle_sched_exec(p)
    \/ \E p \in Cpus : exec_reserve_failed(p)
    \/ \E p \in Cpus : exec_reserved(p)
    \/ \E p \in Cpus : exec_fill(p)
    \/ \E p \in Cpus : exec_namespace(p)
    \/ \E p \in Cpus : exec_container(p)
    \/ \E p \in Cpus : exec_submit(p)
    \/ drain_events
    \/ drain_lifecycle_events

Spec == Init /\ [][Next]_vars
SpecOneCpu == InitOneCpu /\ [][Next]_vars

\* The steps of the probe running on CPU p once it has been entered.
ProbeStep(p) ==
    \/ iov_loop(p)
    \/ emit_null_file(p)
    \/ emit_reserve_failed(p)
    \/ emit_reserved(p)
    \/ emit_fill(p)
    \/ emit_d_path_ok(p)
    \/ emit_d_path_failed(p)
    \/ emit_submit(p)
    \/ exec_reserve_failed(p)
    \/ exec_reserved(p)
    \/ exec_fill(p)
    \/ exec_namespace(p)
    \/ exec_container(p)
    \/ exec_submit(p)

\* A BPF program runs to completion on its CPU: it is not preempted and a
\* CPU that has entered a probe keeps executing it.  Nothing is assumed
\* of the user-space consumer or of the arrival of further calls.
FairCpus == {1, 2}
InitFair == InitWith(FairCpus, LightLoad)
SpecFair ==
    /\ InitFair
    /\ [][Next]_vars
    /\ \A p \in FairCpus : WF_vars(ProbeStep(p))

\* ================================================================== claims
WriteProbes == {"vfs_write", "vfs_writev", "vfs_pwritev"}
VectoredProbes == {"vfs_writev", "vfs_pwritev"}

\* Indices of the outstanding records of a ring, and of those submitted
\* (busy bit clear), which are the ones the consumer may read.
OutIx(r) == {RingIx(r, d) : d \in 0..(r.n - 1)}
Submitted(r) == {k \in OutIx(r) : ~r.mem[k].busy}

\* The records of a ring that invocation number s of CPU p owns.
OwnedIx(r, p, s) == {k \in OutIx(r) : r.mem[k].g.cpu = p /\ r.mem[k].g.seq = s}

\* ---- C1
\* C1: when bpf_ringbuf_reserve finds the probe's ring full, the invocation
\* is over at once: it has called reserve exactly once, has submitted
\* nothing, owns no record in either ring, and has returned 0.
C1_FullRingDropsAndReturnsZero ==
    \A p \in Cpus :
        inv[p].full =>
            /\ pc[p] = "returned"
            /\ ret[p] = 0
            /\ inv[p].attempts = 1
            /\ inv[p].submits = 0
            /\ OwnedIx(events, p, inv[p].seq) = {}
            /\ OwnedIx(lifecycle_events, p, inv[p].seq) = {}

\* An exec probe has met the lifecycle ring full of records and returned.
C1_Witness ==
    \E p \in Cpus :
        /\ inv[p].full
        /\ inv[p].probe = "sched_exec"
        /\ pc[p] = "returned"
        /\ lifecycle_events.n = Capacity

\* ---- C2
\* The sum of the segment lengths as an unbounded number (five limbs):
\* column sums first, carries afterwards.
RECURSIVE ColumnSum(_, _, _)
ColumnSum(iov, k, n) ==
    IF n = 0 THEN 0 ELSE iov[n][k] + ColumnSum(iov, k, n - 1)
RECURSIVE ColumnCarry(_, _)
ColumnCarry(iov, k) ==
    IF k = 1 THEN 0
    ELSE (ColumnSum(iov, k - 1, Len(iov)) + ColumnCarry(iov, k - 1)) \div LimbBase
ExactSum(iov) ==
    [k \in 1..(NumLimbs64 + 1) |->
        IF k <= NumLimbs64
        THEN (ColumnSum(iov, k, Len(iov)) + ColumnCarry(iov, k)) % LimbBase
        ELSE ColumnCarry(iov, k)]
Wide(x) == x \o <<0>>

\* C2 as stated: every submitted record of a vectored write carries the
\* exact sum of its segment lengths.
C2_BytesIsExactSum ==
    \A k \in Submitted(events) :
        events.mem[k].g.arg.probe \in VectoredProbes =>
            Wide(events.mem[k].bytes) = ExactSum(events.mem[k].g.arg.iov)

\* C2 amended: every submitted record of a vectored write carries the sum
\* of its segment lengths modulo 2^64 (the exact sum when that is below
\* 2^64; 0 for no segments).
C2_BytesIsSumMod64 ==
    \A k \in Submitted(events) :
        events.mem[k].g.arg.probe \in VectoredProbes =>
            /\ events.mem[k].bytes = SubSeq(ExactSum(events.mem[k].g.arg.iov), 1, NumLimbs64)
            /\ events.mem[k].g.arg.iov = <<>> => events.mem[k].bytes = Zero64

\* Segments of 10, 20 and 5 bytes gave one record with bytes = 35.
C2_Witness ==
    \E k \in Submitted(events) :
        /\ events.mem[k].g.arg.probe \in VectoredProbes
        /\ events.mem[k].g.arg.iov = <<U64(10), U64(20), U64(5)>>
        /\ events.mem[k].bytes = U64(35)

\* ---- C3
\* The CPUs that have run exactly one write probe with a file, to its end.
OneWriteDone ==
    {p \in Cpus : /\ pc[p] = "returned"
                  /\ inv[p].seq = 1
                  /\ inv[p].probe \in WriteProbes
                  /\ ~inv[p].nofile}
NeverRan == {p \in Cpus : pc[p] = "idle"}

\* C3: when Capacity + 1 write-probe invocations with a file have run on
\* Capacity + 1 CPUs and returned, nothing else has run and the consumer has
\* read nothing, the syscall ring holds exactly Capacity submitted records
\* and exactly one invocation dropped its event.
C3_OneDroppedOfCapacityPlusOne ==
    ( /\ nDrained = 0
      /\ Cardinality(OneWriteDone) = Capacity + 1
      /\ OneWriteDone \cup NeverRan = Cpus )
    => /\ events.n = Capacity
       /\ Cardinality(Submitted(events)) = Capacity
       /\ Cardinality({p \in OneWriteDone : inv[p].submits = 0}) = 1
       /\ Cardinality({p \in OneWriteDone : inv[p].submits = 1}) = Capacity
       /\ \A p \in OneWriteDone : inv[p].submits = 0 <=> inv[p].full

C3_Witness ==
    /\ nDrained = 0
    /\ Cardinality(OneWriteDone) = Capacity + 1
    /\ OneWriteDone \cup NeverRan = Cpus
    /\ Cardinality(Submitted(events)) = Capacity

\* ---- C4
\* A field of a record holds its invocation's value when that invocation
\* wrote it; a field it never wrote is still unset when it is all zero.
SysFieldZero(rec, f) ==
    CASE f = "pid" -> rec.pid = <<0, 0>>
      [] f = "bytes" -> rec.bytes = Zero64
      [] f = "path" -> rec.path = Zeros(PathSize)
LifeFieldZero(rec, f) ==
    CASE f = "pid" -> rec.pid = <<0, 0>>
      [] f = "state" -> rec.state = 0
      [] f = "runtime" -> rec.runtime = Zeros(NameSize)
      [] f = "namespace" -> rec.namespace = Zeros(NameSize)
      [] f = "container" -> rec.container = Zeros(NameSize)

\* C4: every record the consumer can read (outstanding, busy bit clear) has
\* all its fields populated by the invocation that submitted it: none holds
\* bytes that invocation did not put there.
C4_ReadableRecordsArePopulated ==
    /\ \A k \in Submitted(events) :
          \A f \in SysFields \ events.mem[k].g.wr : SysFieldZero(events.mem[k], f)
    /\ \A k \in Submitted(lifecycle_events) :
          \A f \in LifeFields \ lifecycle_events.mem[k].g.wr :
              LifeFieldZero(lifecycle_events.mem[k], f)

\* ---- C5
\* C5: on each ring, the invocation numbers of the records of one CPU that
\* the consumer reads never go down: it reads them in the order in which
\* that CPU emitted them.
C5_PerProducerOrder ==
    [][\A c \in DOMAIN seen : \A p \in Cpus : seen'[c][p] >= seen[c][p]]_vars

\* The consumer has read three syscall records: the first and the second of
\* one CPU and one of another CPU.
C5_Witness ==
    \E p, q \in Cpus :
        /\ p # q
        /\ nDrained = 3
        /\ seen["events"][p] = 2
        /\ seen["events"][q] = 1
        /\ \A o \in Cpus : seen["lifecycle_events"][o] = 0

\* ---- C6
\* C6: in every submitted lifecycle record the namespace is all zero when
\* the task has no nsproxy or no uts_ns, and otherwise is the task's
\* nodename, not empty.
C6_NamespaceMatchesTask ==
    \A k \in Submitted(lifecycle_events) :
        LET rec == lifecycle_events.mem[k]
            t == rec.g.arg.task
        IN  IF t.nsproxy /\ t.uts_ns
            THEN CStr(rec.namespace) = t.nodename /\ t.nodename # <<>>
            ELSE rec.namespace = Zeros(NameSize)

\* ---- C7
\* What the path buffer of a record is to hold, by the way it was resolved.
ExpectedPath(rec) ==
    CASE rec.g.how = "d_path" -> StrCopy(Zeros(PathSize), FullPath(rec.g.arg.file))
      [] rec.g.how = "d_name" -> StrCopy(Zeros(PathSize), DentryName(rec.g.arg.file))
      [] OTHER -> Zeros(PathSize)

\* C7: in every submitted syscall record the path is the resolved path when
\* bpf_d_path succeeded, the dentry name when it failed and the name was
\* read (all zero when that read faulted too), and every byte after it is
\* zero: nothing is left of the record that had this memory before.
C7_PathIsFreshlyResolved ==
    \A k \in Submitted(events) :
        /\ events.mem[k].g.how \in {"d_path", "d_name", "fault"}
        /\ events.mem[k].path = ExpectedPath(events.mem[k])
        /\ events.mem[k].g.how = "d_name" =>
              CStr(events.mem[k].path) = DentryName(events.mem[k].g.arg.file)
        /\ events.mem[k].g.how = "d_path" =>
              CStr(events.mem[k].path) = FullPath(events.mem[k].g.arg.file)

\* The third write of CPU 1 took the memory its first write had used for a
\* longer path, bpf_d_path failed, and the record holds the dentry name.
C7_Witness ==
    /\ 1 \in Submitted(events)
    /\ events.mem[1].g.seq = 3
    /\ events.mem[1].g.how = "d_name"
    /\ events.mem[1].g.arg.file = 2
    /\ events.mem[1].path = <<4>> \o Zeros(PathSize - 1)
    /\ events.mem[2].path = StrCopy(Zeros(PathSize), FullPath(1))
    /\ nDrained >= 1

\* ---- C8
\* CPU p takes a step of a write probe entered with a NULL file handle.
NullFileStep(p) ==
    /\ arg[p].probe \in WriteProbes
    /\ arg[p].file = NULL
    /\ pc'[p] # pc[p] \/ idx'[p] # idx[p]

\* C8: no step of a write probe entered with a NULL file handle (for
\* vfs_writev, read from iocb->ki_filp) changes either ring, calls reserve
\* or submits; at emit_syscall_event it returns 0.
C8_NullFileLeavesRingsAlone ==
    [][\A p \in Cpus :
         NullFileStep(p) =>
            /\ events' = events
            /\ lifecycle_events' = lifecycle_events
            /\ inv'[p].attempts = 0
            /\ inv'[p].submits = 0
            /\ pc[p] = "emit" => (pc'[p] = "returned" /\ ret'[p] = 0)]_vars

\* A vfs_writev whose iocb held no file has returned.
C8_Witness ==
    \E p \in Cpus :
        /\ pc[p] = "returned"
        /\ inv[p].probe = "vfs_writev"
        /\ inv[p].nofile
        /\ inv[p].attempts = 0
        /\ ret[p] = 0

\* ---- C9
\* C9: whatever a probe invocation met, the value it returned is 0.
C9_ProbesReturnZero ==
    \A p \in Cpus : pc[p] = "returned" => ret[p] = 0

\* One write probe has returned after bpf_d_path failed and the read of the
\* dentry name faulted, another after it was entered with a NULL file, and
\* an exec probe for a task without a UTS namespace has returned too.
C9_Witness ==
    /\ \E p \in Cpus :
          /\ pc[p] = "returned"
          /\ inv[p].probe \in WriteProbes
          /\ \E k \in OwnedIx(events, p, inv[p].seq) : events.mem[k].g.how = "fault"
    /\ \E q \in Cpus :
          /\ pc[q] = "returned"
          /\ inv[q].probe \in WriteProbes
          /\ inv[q].nofile
    /\ \E x \in Cpus :
          /\ pc[x] = "returned"
          /\ inv[x].probe = "sched_exec"
          /\ \E k \in OwnedIx(lifecycle_events, x, inv[x].seq) :
                ~lifecycle_events.mem[k].g.arg.task.uts_ns

\* ---- C10
\* C10: an invocation of a write probe submits at most one record and owns
\* at most one record of the syscall ring; when it has returned it has
\* submitted exactly one if its file handle was not NULL and reserve did
\* not find the ring full, and none otherwise.
C10_OneRecordPerWrite ==
    \A p \in Cpus :
        inv[p].probe \in WriteProbes =>
            /\ inv[p].submits <= 1
            /\ Cardinality(OwnedIx(events, p, inv[p].seq)) <= 1
            /\ OwnedIx(lifecycle_events, p, inv[p].seq) = {}
            /\ pc[p] = "returned" =>
                  inv[p].submits = IF ~inv[p].nofile /\ ~inv[p].full THEN 1 ELSE 0

\* A vectored write of three segments has returned and the ring holds the
\* one record it submitted.
C10_Witness ==
    \E p \in Cpus :
        /\ pc[p] = "returned"
        /\ inv[p].probe \in VectoredProbes
        /\ inv[p].submits = 1
        /\ events.n = 1
        /\ \E k \in Submitted(events) :
              /\ OwnedIx(events, p, inv[p].seq) = {k}
              /\ Len(events.mem[k].g.arg.iov) = 3

\* ---- C11
\* C11: an invocation of the exec probe submits at most one record and owns
\* at most one record, of the lifecycle ring; when it has returned it has
\* submitted exactly one if reserve did not find the ring full, whatever
\* the task's namespaces, and none if it did.
C11_OneRecordPerExec ==
    \A p \in Cpus :
        inv[p].probe = "sched_exec" =>
            /\ inv[p].submits <= 1
            /\ Cardinality(OwnedIx(lifecycle_events, p, inv[p].seq)) <= 1
            /\ OwnedIx(events, p, inv[p].seq) = {}
            /\ pc[p] = "returned" =>
                  inv[p].submits = IF inv[p].full THEN 0 ELSE 1

\* The ring holds the submitted records of an exec by a task without
\* nsproxy and of an exec by a task with nsproxy and without uts_ns.
C11_Witness ==
    /\ \E p \in Cpus :
          /\ pc[p] = "returned"
          /\ inv[p].probe = "sched_exec"
          /\ inv[p].submits = 1
    /\ \E k \in Submitted(lifecycle_events) :
          ~lifecycle_events.mem[k].g.arg.task.nsproxy
    /\ \E k \in Submitted(lifecycle_events) :
          /\ lifecycle_events.mem[k].g.arg.task.nsproxy
          /\ ~lifecycle_events.mem[k].g.arg.task.uts_ns

\* ---- C13
\* C13: every submitted record of a vfs_write carries the count the call
\* was entered with.
C13_BytesIsCount ==
    \A k \in Submitted(events) :
        events.mem[k].g.arg.probe = "vfs_write" =>
            events.mem[k].bytes = events.mem[k].g.arg.count

\* A vfs_write of 2^63 bytes gave a record with bytes = 2^63.
C13_Witness ==
    \E k \in Submitted(events) :
        /\ events.mem[k].g.arg.probe = "vfs_write"
        /\ events.mem[k].g.arg.count = Half64
        /\ events.mem[k].bytes = Half64

\* ---- C14
\* C14: in every submitted record of either ring, pid is the upper 32 bits
\* (limbs 3 and 4) of the pid_tgid of the CPU that emitted it, and not the
\* lower 32 bits.
C14_PidIsUpperHalf ==
    /\ \A k \in Submitted(events) :
          LET x == PidTgid(events.mem[k].g.cpu)
          IN  events.mem[k].pid = <<x[3], x[4]>> /\ events.mem[k].pid # <<x[1], x[2]>>
    /\ \A k \in Submitted(lifecycle_events) :
          LET x == PidTgid(lifecycle_events.mem[k].g.cpu)
          IN  /\ lifecycle_events.mem[k].pid = <<x[3], x[4]>>
              /\ lifecycle_events.mem[k].pid # <<x[1], x[2]>>

\* Two CPUs have emitted, one a syscall record and one a lifecycle record.
C14_Witness ==
    \E k \in Submitted(events), j \in Submitted(lifecycle_events) :
        /\ events.mem[k].g.cpu # lifecycle_events.mem[j].g.cpu
        /\ events.mem[k].pid = <<events.mem[k].g.cpu, 0>>
        /\ lifecycle_events.mem[j].pid = <<lifecycle_events.mem[j].g.cpu, 0>>

\* ---- C15
\* C15: every lifecycle record that has been populated, and so every
\* submitted one, has state 1.
C15_StateIsOne ==
    \A k \in OutIx(lifecycle_events) :
        (~lifecycle_events.mem[k].busy \/ "state" \in lifecycle_events.mem[k].g.wr)
            => lifecycle_events.mem[k].state = 1

\* The lifecycle ring is full of submitted records.
C15_Witness ==
    /\ lifecycle_events.n = Capacity
    /\ Submitted(lifecycle_events) = OutIx(lifecycle_events)
    /\ \A k \in Submitted(lifecycle_events) : lifecycle_events.mem[k].state = 1

\* ---- C12
InEmit == {"emit", "fill", "d_path", "submit"}

\* C12: every started invocation eventually returns, with no step of the
\* consumer or of another CPU needed; a vectored probe reaches
\* emit_syscall_event after exactly nr_segs iterations, and an invocation
\* calls reserve at most once.
C12_EveryInvocationReturns ==
    /\ [](\A p \in Cpus :
            /\ inv[p].attempts <= 1
            /\ (pc[p] \in InEmit /\ arg[p].probe \in VectoredProbes)
                  => idx[p] = Len(arg[p].iov))
    /\ \A p \in FairCpus : (pc[p] \notin {"idle", "returned"}) ~> (pc[p] = "returned")

\* With nothing ever drained and the syscall ring full, a vectored probe
\* has found the ring full and has returned.
C12_Witness ==
    /\ nDrained = 0
    /\ events.n = Capacity
    /\ \E p \in Cpus :
          /\ pc[p] = "returned"
          /\ inv[p].probe \in VectoredProbes
          /\ inv[p].full

\* ---- C16
\* The sum modulo 2^64 of the first n segment lengths of iov.
PrefixSum64(iov, n) == SubSeq(ExactSum(SubSeq(iov, 1, n)), 1, NumLimbs64)
Overflows(iov) == ExactSum(iov)[NumLimbs64 + 1] > 0

\* C16: in a vectored probe the accumulator holds, after i iterations, the
\* sum modulo 2^64 of segments 0..i-1; the record carries the sum of all
\* the segments modulo 2^64; and an invocation whose sum overflows, with a
\* file and a slot, has submitted one record and returned 0.
C16_WrappingSumStillEmits ==
    \A p \in Cpus :
        (pc[p] \in {"sum"} \cup InEmit /\ arg[p].probe \in VectoredProbes) =>
            /\ total[p] = PrefixSum64(arg[p].iov, idx[p])
            /\ \A k \in OwnedIx(events, p, inv[p].seq) :
                  "bytes" \in events.mem[k].g.wr =>
                      events.mem[k].bytes = PrefixSum64(arg[p].iov, Len(arg[p].iov))

\* What C16 says of the invocations that are over.
C16_OverflowReturns ==
    \A p \in Cpus :
        (pc[p] = "returned" /\ inv[p].probe \in VectoredProbes) =>
            /\ ret[p] = 0
            /\ (~inv[p].nofile /\ ~inv[p].full) => inv[p].submits = 1
            /\ \A k \in OwnedIx(events, p, inv[p].seq) :
                  LET iov == events.mem[k].g.arg.iov
                  IN  /\ events.mem[k].bytes = PrefixSum64(iov, Len(iov))
                      /\ Overflows(iov) => Wide(events.mem[k].bytes) # ExactSum(iov)

\* C16: the total of a vectored write is accumulated in index order modulo
\* 2^64, the record carries that total, and an overflowing sum still gives
\* one record and a return of 0.
C16_SumMod64InIndexOrder == C16_WrappingSumStillEmits /\ C16_OverflowReturns

\* A vectored write of two segments of 2^63 bytes has returned 0 and its
\* one record, with bytes = 0, is in the ring.
C16_Witness ==
    \E p \in Cpus :
        /\ pc[p] = "returned"
        /\ ret[p] = 0
        /\ inv[p].probe \in VectoredProbes
        /\ inv[p].submits = 1
        /\ \E k \in OwnedIx(events, p, inv[p].seq) :
              /\ events.mem[k].g.arg.iov = <<Half64, Half64>>
              /\ Overflows(events.mem[k].g.arg.iov)
              /\ events.mem[k].bytes = Zero64

\* ---- C17
Reserved(r) == {k \in OutIx(r) : r.mem[k].busy}

\* C17: in each ring the records reserved and not submitted, together with
\* those submitted and not drained, are never more than Capacity, and they
\* are distinct slots of the ring's memory.
C17_OutstandingWithinCapacity ==
    \A r \in {events, lifecycle_events} :
        /\ r.n <= Capacity
        /\ Cardinality(Reserved(r)) + Cardinality(Submitted(r)) = r.n
        /\ Cardinality(Reserved(r)) + Cardinality(Submitted(r)) <= Capacity

\* The syscall ring is full, with a record reserved and a record submitted,
\* and a further invocation has been turned away.
C17_Witness ==
    /\ events.n = Capacity
    /\ Reserved(events) # {}
    /\ Submitted(events) # {}
    /\ \E p \in Cpus : pc[p] = "returned" /\ inv[p].probe \in WriteProbes /\ inv[p].full

\* ---- C18
\* A step of the invocation running on CPU p.
StepOf(p) == pc'[p] # pc[p] \/ idx'[p] # idx[p] \/ inv'[p] # inv[p]

\* C18: a step of a write probe leaves the lifecycle ring unchanged and a
\* step of the exec probe leaves the syscall ring unchanged; a write probe
\* with a file reserves whenever the syscall ring has room and the exec
\* probe reserves whenever the lifecycle ring has room, whatever the state
\* of the other ring.
C18_RingsAreIndependent ==
    [][\A p \in Cpus :
          StepOf(p) =>
              /\ inv'[p].probe \in WriteProbes => lifecycle_events' = lifecycle_events
              /\ inv'[p].probe = "sched_exec" => events' = events
              /\ (pc[p] = "emit" /\ arg[p].file # NULL /\ events.n < Capacity)
                    => (pc'[p] = "fill" /\ events'.n = events.n + 1)
              /\ (pc[p] = "exec" /\ lifecycle_events.n < Capacity)
                    => (pc'[p] = "x_fill" /\ lifecycle_events'.n = lifecycle_events.n + 1)
      ]_vars

\* With nothing drained, a CPU's first two invocations filled the lifecycle
\* ring and its third, a write, has its record in the syscall ring.
C18_Witness ==
    /\ nDrained = 0
    /\ lifecycle_events.n = Capacity
    /\ \E p \in Cpus :
          /\ OwnedIx(lifecycle_events, p, 1) # {}
          /\ OwnedIx(lifecycle_events, p, 2) # {}
          /\ OwnedIx(events, p, 3) \cap Submitted(events) # {}

\* ---- C19
Quiet == \A p \in Cpus : pc[p] \in {"idle", "returned"}

\* C19: a reserved, unsubmitted record belongs to the invocation that is
\* running on its CPU and holds it; an invocation that has returned after a
\* successful reserve has submitted exactly once; so when no invocation is
\* running no ring holds a reserved, unsubmitted record.
C19_NoSlotLeftReserved ==
    /\ \A k \in Reserved(events) :
          LET c == events.mem[k].g.cpu
          IN  /\ c \in Cpus
              /\ pc[c] \in {"fill", "d_path", "submit"}
              /\ ev[c] = k
              /\ events.mem[k].g.seq = inv[c].seq
    /\ \A k \in Reserved(lifecycle_events) :
          LET c == lifecycle_events.mem[k].g.cpu
          IN  /\ c \in Cpus
              /\ pc[c] \in {"x_fill", "x_ns", "x_container", "x_submit"}
              /\ ev[c] = k
              /\ lifecycle_events.mem[k].g.seq = inv[c].seq
    /\ \A p \in Cpus :
          (pc[p] = "returned" /\ inv[p].attempts = 1 /\ ~inv[p].full)
              => inv[p].submits = 1
    /\ Quiet => (Reserved(events) = {} /\ Reserved(lifecycle_events) = {})

\* Every call is over; the rings hold the submitted record of a write whose
\* path resolution and fallback read both failed and that of an exec by a
\* task without UTS namespace.
C19_Witness ==
    /\ Quiet
    /\ nCalls = MaxCalls
    /\ \E k \in Submitted(events) : events.mem[k].g.how = "fault"
    /\ \E k \in Submitted(lifecycle_events) :
          ~lifecycle_events.mem[k].g.arg.task.uts_ns
====
